---- MODULE Spec2Model ----
(***************************************************************************)
(* Session & benchmark controller of the traffic dashboard                 *)
(* (frontend/src/App.js): the React state of App, the user entry points    *)
(* as gated by the rendered buttons, the poll timer of the telemetry       *)
(* effect, and the completion handlers of every axios request.             *)
(*                                                                         *)
(* The JavaScript runs single-threaded: an event handler, a timer callback *)
(* or the promise callbacks of one response run to completion, so each is  *)
(* one action.  A request that has been issued and not yet answered is an  *)
(* element of stepReqs / startReqs / toggleReqs or the value of benchReq;  *)
(* the backend answers them in any order, with success or failure.         *)
(***************************************************************************)
EXTENDS Integers, Sequences, FiniteSets, TLC

VARIABLES
    simData,            \* useState(null)            App.js:7
    isRunning,          \* useState(false)           App.js:8
    selectedMap,        \* useState('intersection')  App.js:9
    aiEnabled,          \* useState(false)           App.js:10
    beforeAiResults,    \* useState(null)            App.js:11
    afterAiResults,     \* useState(null)            App.js:12
    comparisonResult,   \* useState(null)            App.js:13
    isTesting,          \* useState(false)           App.js:14
    stepReqs,           \* GET /step requests in flight, in issuance order
    startReqs,          \* POST /start (interactive) requests in flight
    toggleReqs,         \* POST /toggle-ai requests in flight
    benchReq,           \* POST /start (performance run) request in flight, or null
    lastPoll,           \* history: payload of the last successful /step response
    lastOp              \* history: the handler that ran last, with its inputs

progVars == <<simData, isRunning, selectedMap, aiEnabled, beforeAiResults,
              afterAiResults, comparisonResult, isTesting>>
netVars  == <<stepReqs, startReqs, toggleReqs, benchReq>>
vars     == <<simData, isRunning, selectedMap, aiEnabled, beforeAiResults,
              afterAiResults, comparisonResult, isTesting,
              stepReqs, startReqs, toggleReqs, benchReq,
              lastPoll, lastOp>>

(***************************************************************************)
(* Bounds of the model.                                                    *)
(***************************************************************************)
MaxInFlight == 2            \* /step, /start and /toggle-ai requests that may overlap
MaxMetric == 3              \* metric values of the summaries of SpecCompare

(***************************************************************************)
(* Values.                                                                 *)
(***************************************************************************)
null == [null |-> TRUE]                       \* JavaScript null

Maps == {"intersection", "bangalore"}         \* the <option> values
InitialMap == "intersection"

\* response.data of /step: only the fields the dashboard reads
Snapshots == {[vehicles_we |-> 3, vehicles_ns |-> 1, current_phase |-> 0],
              [vehicles_we |-> 0, vehicles_ns |-> 4, current_phase |-> 2]}

\* res.data of a performance run.  map_name is a history field: the map_name
\* of the request that produced the summary (the response does not carry it).
Summary(tt, wt, vc, ev, m) ==
    [avg_travel_time |-> tt, avg_waiting_time |-> wt,
     vehicles_completed |-> vc, avg_ev_wait_time |-> ev, map_name |-> m]

ExampleBefore == Summary(50, 0, 100, 10, InitialMap)
ExampleAfter  == Summary(40, 5, 120, 6, InitialMap)

\* the summary the backend returns for a run against map m: the fixed-timer
\* figures for a baseline run, the smart-system figures for an AI run
RunSummaries(m, aiMode) ==
    IF aiMode THEN {Summary(40, 5, 120, 6, m)} ELSE {Summary(50, 0, 100, 10, m)}

\* every summary with metrics in 0..MaxMetric
AllSummaries ==
    {Summary(tt, wt, vc, ev, InitialMap) :
        tt \in 0..MaxMetric, wt \in 0..MaxMetric,
        vc \in 0..MaxMetric, ev \in 0..MaxMetric}

\* requests of the interactive session awaiting their response
InFlight == Len(stepReqs) + Len(startReqs) + Len(toggleReqs)

Remove(s, i) == SubSeq(s, 1, i - 1) \o SubSeq(s, i + 1, Len(s))

(***************************************************************************)
(* What the render enables: the disabled attributes of the controls.       *)
(***************************************************************************)
MapSelectDisabled == isRunning
StartDisabled == isRunning
ToggleDisabled == ~isRunning
BenchDisabledMut == isTesting
BenchDisabledOnlyRunning == isRunning
BenchDisabled == isTesting \/ isRunning
CompareDisabled == isTesting \/ isRunning

\* the interval exists exactly while the effect of [isRunning] is mounted
\* with isRunning true
PollTimerNeverCleared == TRUE
PollTimerActive == isRunning

(***************************************************************************)
(* Initial state: the useState initialisers, nothing in flight.            *)
(***************************************************************************)
Idle0 ==
    /\ simData = null
    /\ isRunning = FALSE
    /\ selectedMap = InitialMap
    /\ aiEnabled = FALSE
    /\ comparisonResult = null
    /\ isTesting = FALSE
    /\ stepReqs = <<>>
    /\ startReqs = <<>>
    /\ toggleReqs = <<>>
    /\ benchReq = null
    /\ lastPoll = null
    /\ lastOp = [type |-> "init"]

Init ==
    /\ Idle0
    /\ beforeAiResults = null
    /\ afterAiResults = null

(***************************************************************************)
(* Telemetry poller.                                                       *)
(***************************************************************************)
\* A /step or /toggle-ai request is issued while Running.  Its stale flag is
\* history: it is raised when the Running period that issued it ends.
Stale(req) == req.stale

EndSession(reqs) == [j \in 1..Len(reqs) |-> [reqs[j] EXCEPT !.stale = TRUE]]

\* setInterval callback: axios.get('/step')
Tick ==
    /\ PollTimerActive
    /\ InFlight < MaxInFlight
    /\ stepReqs' = Append(stepReqs, [stale |-> FALSE, overtaken |-> FALSE])
    /\ lastOp' = [type |-> "tick"]
    /\ UNCHANGED <<progVars, startReqs, toggleReqs, benchReq, lastPoll>>

\* the requests left in flight once request i has been answered successfully:
\* those issued before it have been overtaken by a later-issued response
AfterStepOk(i) ==
    [j \in 1..(Len(stepReqs) - 1) |->
        IF j < i THEN [stepReqs[j] EXCEPT !.overtaken = TRUE]
                 ELSE stepReqs[j + 1]]

\* the snapshot after a successful response carrying data
StepThenIssuanceOrder(req, data) == IF req.overtaken THEN simData ELSE data
StepThen(req, data) == data

\* .then(response => setSimData(response.data))
StepOk(i, data) ==
    /\ simData' = StepThen(stepReqs[i], data)
    /\ lastPoll' = data
    /\ stepReqs' = AfterStepOk(i)
    /\ lastOp' = [type |-> "stepOk", stale |-> Stale(stepReqs[i]),
                  overtaken |-> stepReqs[i].overtaken]
    /\ UNCHANGED <<isRunning, selectedMap, aiEnabled, beforeAiResults,
                   afterAiResults, comparisonResult, isTesting,
                   startReqs, toggleReqs, benchReq>>

\* .catch(error => setIsRunning(false))
StepErr(i) ==
    /\ isRunning' = FALSE
    /\ stepReqs' = EndSession(Remove(stepReqs, i))
    /\ toggleReqs' = EndSession(toggleReqs)
    /\ lastOp' = [type |-> "stepErr", stale |-> Stale(stepReqs[i])]
    /\ UNCHANGED <<simData, selectedMap, aiEnabled, beforeAiResults,
                   afterAiResults, comparisonResult, isTesting,
                   startReqs, benchReq, lastPoll>>

(***************************************************************************)
(* Interactive session.                                                    *)
(***************************************************************************)
\* <select onChange={(e) => setSelectedMap(e.target.value)} disabled={isRunning}>
SelectMap(m) ==
    /\ ~MapSelectDisabled
    /\ m # selectedMap
    /\ selectedMap' = m
    /\ lastOp' = [type |-> "selectMap"]
    /\ UNCHANGED <<simData, isRunning, aiEnabled, beforeAiResults,
                   afterAiResults, comparisonResult, isTesting,
                   netVars, lastPoll>>

\* handleStartSimulation: axios.post('/start', { map_name: selectedMap })
HandleStartSimulation ==
    /\ ~StartDisabled
    /\ InFlight < MaxInFlight
    /\ startReqs' = Append(startReqs, [map_name |-> selectedMap])
    /\ lastOp' = [type |-> "start"]
    /\ UNCHANGED <<progVars, stepReqs, toggleReqs, benchReq, lastPoll>>

AiAfterStartKeep == aiEnabled
AiAfterStart == FALSE

\* .then: setIsRunning(true); setAiEnabled(false)
StartOk(i) ==
    /\ isRunning' = TRUE
    /\ aiEnabled' = AiAfterStart
    /\ startReqs' = Remove(startReqs, i)
    /\ lastOp' = [type |-> "startOk", prevAi |-> aiEnabled,
                  wasRunning |-> isRunning,
                  map_name |-> startReqs[i].map_name]
    /\ UNCHANGED <<simData, selectedMap, beforeAiResults, afterAiResults,
                   comparisonResult, isTesting,
                   stepReqs, toggleReqs, benchReq, lastPoll>>

\* .catch: console.error only
StartErr(i) ==
    /\ startReqs' = Remove(startReqs, i)
    /\ lastOp' = [type |-> "startErr"]
    /\ UNCHANGED <<progVars, stepReqs, toggleReqs, benchReq, lastPoll>>

\* handleToggleAI: axios.post('/toggle-ai')
HandleToggleAI ==
    /\ ~ToggleDisabled
    /\ InFlight < MaxInFlight
    /\ toggleReqs' = Append(toggleReqs, [stale |-> FALSE, reqAi |-> aiEnabled])
    /\ lastOp' = [type |-> "toggle"]
    /\ UNCHANGED <<progVars, stepReqs, startReqs, benchReq, lastPoll>>

AiAfterToggleFlip(req, reported) == ~req.reqAi
AiAfterToggle(req, reported) == reported

\* .then: setAiEnabled(res.data.ai_enabled)
ToggleOk(i, reported) ==
    /\ aiEnabled' = AiAfterToggle(toggleReqs[i], reported)
    /\ toggleReqs' = Remove(toggleReqs, i)
    /\ lastOp' = [type |-> "toggleOk", ai_enabled |-> reported,
                  reqAi |-> toggleReqs[i].reqAi,
                  stale |-> Stale(toggleReqs[i])]
    /\ UNCHANGED <<simData, isRunning, selectedMap, beforeAiResults,
                   afterAiResults, comparisonResult, isTesting,
                   stepReqs, startReqs, benchReq, lastPoll>>

\* .catch: console.error only
ToggleErr(i) ==
    /\ toggleReqs' = Remove(toggleReqs, i)
    /\ lastOp' = [type |-> "toggleErr"]
    /\ UNCHANGED <<progVars, stepReqs, startReqs, benchReq, lastPoll>>

(***************************************************************************)
(* Performance runs.                                                       *)
(***************************************************************************)
\* const run_id = `${selectedMap}_${aiMode ? 'after_ai' : 'before_ai'}`
RunId(m, aiMode) == <<m, IF aiMode THEN "after_ai" ELSE "before_ai">>

\* setComparisonResult(null)
ClearedComparisonKept == comparisonResult
ClearedComparison == null

\* setAfterAiResults(null) / setBeforeAiResults(null), for the slot holding old
ClearedSlotKept(old) == old
ClearedSlot(old) == null

\* runPerformanceTest(aiMode), up to and including the axios.post
RunPerformanceTest(aiMode) ==
    /\ ~BenchDisabled
    /\ isTesting' = TRUE
    /\ comparisonResult' = ClearedComparison
    /\ IF aiMode
         THEN afterAiResults' = ClearedSlot(afterAiResults)
              /\ UNCHANGED beforeAiResults
         ELSE beforeAiResults' = ClearedSlot(beforeAiResults)
              /\ UNCHANGED afterAiResults
    /\ benchReq' = [map_name |-> selectedMap,
                    run_id |-> RunId(selectedMap, aiMode),
                    ai_mode |-> aiMode,
                    pre |-> [before |-> beforeAiResults,
                             after |-> afterAiResults,
                             comparison |-> comparisonResult]]
    /\ lastOp' = [type |-> "runTest", ai_mode |-> aiMode]
    /\ UNCHANGED <<simData, isRunning, selectedMap, aiEnabled,
                   stepReqs, startReqs, toggleReqs, lastPoll>>

\* the summaries the backend may answer the run in flight with
BenchResponses ==
    IF benchReq = null THEN {}
    ELSE RunSummaries(benchReq.map_name, benchReq.ai_mode)

\* the slot a successful response is stored into
StoreSwapped(aiMode) == ~aiMode
StoreAfter(aiMode) == aiMode

\* .finally(() => setIsTesting(false))
TestingAfterFinallyStuck == isTesting
TestingAfterFinally == FALSE

\* .then: store res.data in the slot of the run; .finally: setIsTesting(false)
BenchOk(data) ==
    /\ benchReq # null
    /\ IF StoreAfter(benchReq.ai_mode)
         THEN afterAiResults' = data /\ UNCHANGED beforeAiResults
         ELSE beforeAiResults' = data /\ UNCHANGED afterAiResults
    /\ isTesting' = TestingAfterFinally
    /\ benchReq' = null
    /\ lastOp' = [type |-> "benchOk", ai_mode |-> benchReq.ai_mode,
                  data |-> data, pre |-> benchReq.pre]
    /\ UNCHANGED <<simData, isRunning, selectedMap, aiEnabled, comparisonResult,
                   stepReqs, startReqs, toggleReqs, lastPoll>>

\* .catch: alert and console.error; .finally: setIsTesting(false)
BenchErr ==
    /\ benchReq # null
    /\ isTesting' = TestingAfterFinally
    /\ benchReq' = null
    /\ lastOp' = [type |-> "benchErr", ai_mode |-> benchReq.ai_mode,
                  pre |-> benchReq.pre]
    /\ UNCHANGED <<simData, isRunning, selectedMap, aiEnabled, beforeAiResults,
                   afterAiResults, comparisonResult,
                   stepReqs, startReqs, toggleReqs, lastPoll>>

(***************************************************************************)
(* Comparison.                                                             *)
(***************************************************************************)
\* if (!beforeAiResults || !afterAiResults)
SlotsMissingOnlyBefore == beforeAiResults = null
SlotsMissing == beforeAiResults = null \/ afterAiResults = null

\* handleComparison
HandleComparison ==
    /\ ~CompareDisabled
    /\ IF SlotsMissing
         THEN /\ lastOp' = [type |-> "compareRejected"]
              /\ UNCHANGED comparisonResult
         ELSE /\ comparisonResult' = [before_ai |-> beforeAiResults,
                                      after_ai |-> afterAiResults]
              /\ lastOp' = [type |-> "compare",
                            again |-> comparisonResult # null]
    /\ UNCHANGED <<simData, isRunning, selectedMap, aiEnabled, beforeAiResults,
                   afterAiResults, isTesting, netVars, lastPoll>>

(***************************************************************************)
(* The Improvement column of the comparison table (App.js:199-236).        *)
(* A cell is the text the expression renders, without the % sign: a number *)
(* with two decimals, kept in hundredths of a percent, or one of the texts *)
(* "N/A", "NaN", "Infinity", "-Infinity".  Metrics are non-negative.       *)
(***************************************************************************)
\* (n / d).toFixed(2) for d > 0, in hundredths: the nearest hundredth, a tie
\* going away from zero.  The quotient is taken exactly.
ToFixed2(n, d) ==
    LET a == IF n < 0 THEN -n ELSE n
        q == (2 * 100 * a + d) \div (2 * d)
    IN  IF n < 0 THEN -q ELSE q

\* (((after - before) / before) * 100).toFixed(2): a division by zero gives
\* NaN (0 / 0) or an infinity in JavaScript, which toFixed prints by name
PercentChange(before, after) ==
    IF before = 0
      THEN IF after = before THEN [text |-> "NaN"]
           ELSE IF after > before THEN [text |-> "Infinity"]
           ELSE [text |-> "-Infinity"]
      ELSE [text |-> "fixed", hundredths |-> ToFixed2((after - before) * 100, before)]

\* before > 0 ? (...).toFixed(2) + '%' : 'N/A'
GuardedPercentChangeNoGuard(before, after) == PercentChange(before, after)
GuardedPercentChange(before, after) ==
    IF before > 0 THEN PercentChange(before, after) ELSE [text |-> "N/A"]

\* the four rows rendered for a comparison c
ImprovementRows(c) ==
    [avg_travel_time |->
        PercentChange(c.before_ai.avg_travel_time, c.after_ai.avg_travel_time),
     avg_waiting_time |->
        GuardedPercentChange(c.before_ai.avg_waiting_time,
                             c.after_ai.avg_waiting_time),
     avg_ev_wait_time |->
        GuardedPercentChange(c.before_ai.avg_ev_wait_time,
                             c.after_ai.avg_ev_wait_time),
     vehicles_completed |->
        PercentChange(c.before_ai.vehicles_completed,
                      c.after_ai.vehicles_completed)]

(***************************************************************************)
(* Specification.                                                          *)
(***************************************************************************)
Next ==
    \/ Tick
    \/ \E i \in 1..Len(stepReqs) : \E data \in Snapshots : StepOk(i, data)
    \/ \E i \in 1..Len(stepReqs) : StepErr(i)
    \/ \E m \in Maps : SelectMap(m)
    \/ HandleStartSimulation
    \/ \E i \in 1..Len(startReqs) : StartOk(i)
    \/ \E i \in 1..Len(startReqs) : StartErr(i)
    \/ HandleToggleAI
    \/ \E i \in 1..Len(toggleReqs) : \E reported \in BOOLEAN : ToggleOk(i, reported)
    \/ \E i \in 1..Len(toggleReqs) : ToggleErr(i)
    \/ \E aiMode \in BOOLEAN : RunPerformanceTest(aiMode)
    \/ \E data \in BenchResponses : BenchOk(data)
    \/ BenchErr
    \/ HandleComparison

Spec == Init /\ [][Next]_vars

(***************************************************************************)
(* The comparison on its own: both runs have completed (with any summaries *)
(* over 0..MaxMetric, or the figures of the worked example), or one has    *)
(* not, the dashboard is idle, and the user compares.                      *)
(***************************************************************************)
CapturedSummaries == AllSummaries \cup {ExampleBefore, ExampleAfter, null}

InitCompare ==
    /\ Idle0
    /\ beforeAiResults \in CapturedSummaries
    /\ afterAiResults \in CapturedSummaries

NextCompare == HandleComparison

SpecCompare == InitCompare /\ [][NextCompare]_vars

(***************************************************************************)
(* The controller with a backend that answers every performance run: the   *)
(* request in flight is eventually answered, with a summary or an error.   *)
(***************************************************************************)
BenchSettles == (\E data \in BenchResponses : BenchOk(data)) \/ BenchErr

SpecFair == Init /\ [][Next]_vars /\ WF_vars(BenchSettles)

(***************************************************************************)
(* Claims.                                                                 *)
(***************************************************************************)

\* C1: isRunning and isTesting are never both true, whatever the interleaving
\* of handleStartSimulation, runPerformanceTest, the poll timer and the
\* completion of their requests.
C1_SessionExcludesBenchmark == ~(isRunning /\ isTesting)

\* C2: while isTesting or isRunning is true no runPerformanceTest runs: no
\* performance-run request is issued, isTesting is not raised, no summary slot
\* is cleared and comparisonResult keeps its value.
C2_BenchmarkRejectedWhileBusy ==
    [][(isTesting \/ isRunning) =>
          /\ lastOp'.type # "runTest"
          /\ (benchReq' # benchReq => benchReq' = null)
          /\ (isTesting' => isTesting)
          /\ (beforeAiResults' = null => beforeAiResults = null)
          /\ (afterAiResults' = null => afterAiResults = null)
          /\ comparisonResult' = comparisonResult]_vars

\* a session is running, no run is in flight, and a comparison is on screen
\* that a performance run would clear
C2_Witness ==
    /\ isRunning
    /\ ~isTesting
    /\ comparisonResult # null
    /\ lastOp.type = "startOk"

\* C3: a response (success or failure) to a /step request whose Running
\* period a poll failure has ended changes neither simData nor isRunning.
C3_StaleStepResponseDiscarded ==
    [][(lastOp'.type \in {"stepOk", "stepErr"} /\ lastOp'.stale) =>
          (simData' = simData /\ isRunning' = isRunning)]_vars

\* C4: while Running, simData is the payload of the successful /step response
\* that completed most recently, whatever the order the requests were issued in.
C4_LatestCompletedPollWins == isRunning => simData = lastPoll

\* a response has just been applied, in its own session, after a later-issued
\* request had already been answered
C4_Witness ==
    /\ isRunning
    /\ lastOp.type = "stepOk"
    /\ lastOp.overtaken
    /\ ~lastOp.stale
    /\ simData = lastPoll

\* C5: a successful performance run leaves its summary in the slot of its
\* kind, the other slot as it was before the call, and comparisonResult null.
C5_BenchmarkSuccessFrame ==
    lastOp.type = "benchOk" =>
        /\ comparisonResult = null
        /\ IF lastOp.ai_mode
             THEN /\ afterAiResults = lastOp.data
                  /\ beforeAiResults = lastOp.pre.before
             ELSE /\ beforeAiResults = lastOp.data
                  /\ afterAiResults = lastOp.pre.after

\* an AI run has succeeded that was launched with a baseline summary stored
\* and a comparison on screen
C5_Witness ==
    /\ lastOp.type = "benchOk"
    /\ lastOp.ai_mode
    /\ lastOp.pre.before # null
    /\ lastOp.pre.comparison # null

\* C6: comparisonResult is non-null only if both summary slots are non-null,
\* and handleComparison with an empty slot changes no state.
C6_ComparisonNeedsBothSummaries ==
    /\ [](comparisonResult # null =>
            (beforeAiResults # null /\ afterAiResults # null))
    /\ [][(/\ lastOp'.type \in {"compare", "compareRejected"}
           /\ (beforeAiResults = null \/ afterAiResults = null)) =>
              UNCHANGED <<progVars, netVars>>]_vars

\* handleComparison has just been refused with only the baseline summary stored
C6_Witness ==
    /\ lastOp.type = "compareRejected"
    /\ beforeAiResults # null
    /\ afterAiResults = null
    /\ comparisonResult = null

\* C7: whenever comparisonResult is non-null, both summaries it pairs come
\* from runs whose map_name is the selected map.
C7_ComparisonOfSelectedMap ==
    comparisonResult # null =>
        /\ comparisonResult.before_ai.map_name = selectedMap
        /\ comparisonResult.after_ai.map_name = selectedMap

\* C8: a successful start response leaves isRunning true and aiEnabled false,
\* whatever aiEnabled was.
C8_StartResetsAi == lastOp.type = "startOk" => (isRunning /\ ~aiEnabled)

\* a start response has just been applied with aiEnabled true before it
C8_Witness == lastOp.type = "startOk" /\ lastOp.prevAi

\* C9: after a successful toggle response aiEnabled is the ai_enabled the
\* service reported, whatever aiEnabled was when the request was issued.
C9_ToggleServerAuthoritative ==
    lastOp.type = "toggleOk" => aiEnabled = lastOp.ai_enabled

\* the service has just reported false for a request made with aiEnabled false
C9_Witness ==
    /\ lastOp.type = "toggleOk"
    /\ ~lastOp.reqAi
    /\ ~lastOp.ai_enabled
    /\ ~aiEnabled

\* C10: each Improvement cell is (after - before) / before * 100 to two
\* decimals, except that the waiting-time and EV-waiting-time cells are "N/A"
\* exactly when the baseline value is 0; the worked example gives -20.00, N/A,
\* +20.00 and -40.00.  A travel-time or vehicles-completed baseline of 0 is
\* not guarded: the cell is what JavaScript makes of the division, NaN or
\* Infinity.
Metrics == {"avg_travel_time", "avg_waiting_time",
            "avg_ev_wait_time", "vehicles_completed"}
GuardedMetrics == {"avg_waiting_time", "avg_ev_wait_time"}

\* cell shows the hundredth nearest to (after - before) / before * 100
NearestHundredth(cell, before, after) ==
    /\ cell.text = "fixed"
    /\ LET err == cell.hundredths * before - (after - before) * 10000
       IN  2 * err <= before /\ -2 * err <= before

C10_ImprovementCells ==
    comparisonResult # null =>
        LET b == comparisonResult.before_ai
            a == comparisonResult.after_ai
            rows == ImprovementRows(comparisonResult)
        IN  /\ \A k \in Metrics :
                  b[k] > 0 => NearestHundredth(rows[k], b[k], a[k])
            /\ \A k \in GuardedMetrics :
                  (rows[k] = [text |-> "N/A"]) <=> (b[k] = 0)
            /\ \A k \in Metrics \ GuardedMetrics :
                  b[k] = 0 => rows[k].text \in {"NaN", "Infinity"}
            /\ (b = ExampleBefore /\ a = ExampleAfter) =>
                  rows = [avg_travel_time |-> [text |-> "fixed", hundredths |-> -2000],
                          avg_waiting_time |-> [text |-> "N/A"],
                          vehicles_completed |-> [text |-> "fixed", hundredths |-> 2000],
                          avg_ev_wait_time |-> [text |-> "fixed", hundredths |-> -4000]]

\* the worked example has been compared
C10_Witness ==
    /\ lastOp.type = "compare"
    /\ comparisonResult = [before_ai |-> ExampleBefore, after_ai |-> ExampleAfter]

\* C11: no /step request is issued in a state in which isRunning is false:
\* the poll timer ticks only while Running.
C11_NoPollWhileIdle ==
    [][(lastOp'.type = "tick" \/ Len(stepReqs') > Len(stepReqs)) =>
          isRunning]_vars

\* a poll failure has just ended the session and the timer, which the bound
\* on requests in flight would let tick, is gone
C11_Witness ==
    /\ lastOp.type = "stepErr"
    /\ ~lastOp.stale
    /\ ~isRunning
    /\ InFlight < MaxInFlight

\* C12: isTesting is true exactly while a performance-run request is in
\* flight, and a run is launched only when none is in flight.
C12_TestingIffRunInFlight ==
    /\ [](isTesting <=> benchReq # null)
    /\ [][lastOp'.type = "runTest" => benchReq = null]_vars

\* a run is in flight, launched after an earlier run had been answered
C12_Witness ==
    /\ lastOp.type = "runTest"
    /\ isTesting
    /\ benchReq # null
    /\ benchReq.pre.before # null

\* C13: if every performance run is eventually answered, isTesting = true is
\* always followed by isTesting = false.
C13_TestingEventuallyReset == isTesting ~> ~isTesting

\* a failed run has just been handled and isTesting is false again
C13_Witness ==
    /\ lastOp.type = "benchErr"
    /\ ~isTesting
    /\ benchReq = null

\* C14: after a failed performance run the slot of its kind is null and the
\* other slot holds the value it had before the call.
C14_FailedRunLeavesSlotEmpty ==
    lastOp.type = "benchErr" =>
        IF lastOp.ai_mode
          THEN afterAiResults = null /\ beforeAiResults = lastOp.pre.before
          ELSE beforeAiResults = null /\ afterAiResults = lastOp.pre.after

\* an AI run has failed that was launched with both summaries stored
C14_Witness ==
    /\ lastOp.type = "benchErr"
    /\ lastOp.ai_mode
    /\ lastOp.pre.after # null
    /\ lastOp.pre.before # null
    /\ afterAiResults = null

\* C15 as claimed: after a failed performance run both slots and
\* comparisonResult have their values of before the call.
C15_FailedRunRollsBack ==
    lastOp.type = "benchErr" =>
        /\ beforeAiResults = lastOp.pre.before
        /\ afterAiResults = lastOp.pre.after
        /\ comparisonResult = lastOp.pre.comparison

\* C15 as amended: after a failed performance run comparisonResult is null,
\* isTesting is false and the other slot has its value of before the call; the
\* state is the one before the call exactly when the slot of the run's kind
\* and comparisonResult were null before the call.
C15_FailedRunKeepsLaunchClearing ==
    lastOp.type = "benchErr" =>
        LET pre == lastOp.pre
            own == IF lastOp.ai_mode THEN pre.after ELSE pre.before
        IN  /\ comparisonResult = null
            /\ ~isTesting
            /\ IF lastOp.ai_mode THEN beforeAiResults = pre.before
                                 ELSE afterAiResults = pre.after
            /\ (/\ beforeAiResults = pre.before
                /\ afterAiResults = pre.after
                /\ comparisonResult = pre.comparison)
               <=> (own = null /\ pre.comparison = null)

\* a baseline run has failed that was launched with a comparison on screen
C15_Witness ==
    /\ lastOp.type = "benchErr"
    /\ ~lastOp.ai_mode
    /\ lastOp.pre.comparison # null
    /\ comparisonResult = null
    /\ beforeAiResults = null

\* C16: a failed start leaves isRunning false and aiEnabled unchanged and
\* issues no further start request; a failed toggle leaves aiEnabled and
\* isRunning unchanged.
C16_FailedStartOrToggle ==
    [][/\ lastOp'.type = "startErr" =>
            /\ ~isRunning'
            /\ aiEnabled' = aiEnabled
            /\ Len(startReqs') = Len(startReqs) - 1
       /\ lastOp'.type = "toggleErr" =>
            /\ aiEnabled' = aiEnabled
            /\ isRunning' = isRunning]_vars

\* C17: aiEnabled changes only by a start response or by the response to a
\* toggle of the session that is still Running; a toggle response whose
\* session is over does not change aiEnabled.
C17_AiChangesOnlyInSession ==
    [][/\ aiEnabled' # aiEnabled =>
            \/ lastOp'.type = "startOk"
            \/ (lastOp'.type = "toggleOk" /\ ~lastOp'.stale /\ isRunning)
       /\ (lastOp'.type = "toggleOk" /\ lastOp'.stale) =>
            aiEnabled' = aiEnabled]_vars

\* C18: selectedMap does not change while isRunning is true, and it is the
\* map_name of the start request that made the session Running.
C18_MapFixedWhileRunning ==
    /\ [][(isRunning /\ isRunning') => selectedMap' = selectedMap]_vars
    /\ []((lastOp.type = "startOk" /\ ~lastOp.wasRunning) =>
             lastOp.map_name = selectedMap)

\* C19: a non-null comparisonResult pairs the current beforeAiResults and
\* afterAiResults, and handleComparison again leaves it as it is.
C19_ComparisonNeverStale ==
    /\ [](comparisonResult # null =>
            /\ comparisonResult.before_ai = beforeAiResults
            /\ comparisonResult.after_ai = afterAiResults)
    /\ [][(lastOp'.type = "compare" /\ comparisonResult # null) =>
             comparisonResult' = comparisonResult]_vars

\* handleComparison has just run with a comparison already on screen
C19_Witness ==
    /\ lastOp.type = "compare"
    /\ lastOp.again
    /\ comparisonResult = [before_ai |-> beforeAiResults,
                           after_ai |-> afterAiResults]

\* C20: no start response is applied while isRunning is already true, and at
\* most one start request is in flight.
C20_StartOnlyWhenIdle ==
    /\ lastOp.type = "startOk" => ~lastOp.wasRunning
    /\ Len(startReqs) <= 1

====
